---- MODULE Spec2Model ----
(***************************************************************************)
(* The per-room state machine of the 80-points card server                *)
(* (src/unnamed/part_000): seating and auto-start, turn-ordered drawing    *)
(* with trump discovery, undo of the last draw, the bottom-eight exchange, *)
(* reshuffle, trick play and disconnect.                                   *)
(*                                                                         *)
(* One room is modelled.  The room is the JavaScript object built by       *)
(* create_room, kept here as one record `room` with the source's field     *)
(* names.  A card is identified by the value of idCounter it was built     *)
(* with (the id string `c_<d>_<idCounter>` is injective in idCounter); its *)
(* suit and rank are looked up in the list buildTwoDecks constructs.       *)
(*                                                                         *)
(* Scale.  The source builds 2 x (4 suits x 13 ranks + 2 jokers) = 108     *)
(* cards, reserves 8 and deals 100, 25 to each of the four seats.  The     *)
(* model keeps the 2 decks, the 4 suits, the 2 jokers per deck and the 8   *)
(* reserved cards, and builds the decks from the first NumRanks ranks of   *)
(* RankOrder.  The hand limit (the literal 25 = 100 / 4 in the source) is  *)
(* kept at the draw pile divided by the four seats.                        *)
(***************************************************************************)
EXTENDS Integers, Sequences, FiniteSets, TLC

\* ---------------------------------------------------------------- bounds

\* How many of the source's 13 ranks the decks are built from.
NumRanks == 2

\* How many socket ids ever connect to the server.
NumSockets == 5

\* How many turns of trick play the clients take.
MaxPlays == 2

\* ------------------------------------------------------ program constants

NumDecks == 2
JokersPerDeck == 2
BottomCount == 8
SafetyBound == 2000
ReshuffleLimit == 25

SEATS == <<"N", "E", "S", "W">>
Seats == {"N", "E", "S", "W"}
Suits == <<"S", "H", "D", "C">>

\* The source's ranks 2..14, listed with the ranks the rules single out first
\* (2 fixes the trump; 13, 5 and 10 carry points), so that a short prefix
\* keeps them.
RankOrder == <<2, 13, 5, 10, 3, 4, 6, 7, 8, 9, 11, 12, 14>>
Ranks == SubSeq(RankOrder, 1, NumRanks)

PerDeck == Len(Suits) * Len(Ranks) + JokersPerDeck
DeckSize == NumDecks * PerDeck
HandLimit == (DeckSize - BottomCount) \div Len(SEATS)

\* JavaScript null, for a seat, a suit or a name; and for a socket id.
Null == "null"
NoSocket == 0
Sockets == 1..NumSockets
Creator == 1

\* An identifier that names no card (the cards are numbered from 0).
BogusId == DeckSize

\* ------------------------------------------------------------ deck builder

\* The card pushed with idCounter = k (k from 0), in the loop order of
\* buildTwoDecks: per deck, suit-major then rank, then the two jokers.
CardOf(k) ==
  LET r == k % PerDeck
      n == Len(Ranks)
  IN  IF r < Len(Suits) * n
        THEN [id |-> k, suit |-> Suits[(r \div n) + 1], rank |-> Ranks[(r % n) + 1]]
        ELSE IF r = Len(Suits) * n
          THEN [id |-> k, suit |-> Null, rank |-> 15]
          ELSE [id |-> k, suit |-> Null, rank |-> 16]

cards == [i \in 1..DeckSize |-> CardOf(i - 1)]

RankOfId(id) == CardOf(id).rank
SuitOfId(id) == CardOf(id).suit

\* Math.floor(Math.random() * (i + 1)) for the loop index i, under random
\* source s: a value in 0..i.
\*   source 1: always 0.  The deck is the built list rotated left by one,
\*     so the first card drawn is the 2 of spades of the first deck.
\*   source 2: the draws listed in TwosFirst.  With two ranks, all eight
\*     rank-2 cards end up in the first eight places of the deck.
\*   source 3: the draws listed in LateTwo.  With two ranks, the second card
\*     drawn is the first rank-2 card, and the first eight places hold two
\*     kings, two rank-2 cards and the four jokers.
\* Beyond the listed draws a source answers i (no swap).
TwosFirst == <<1, 1, 3, 1, 1, 3, 3, 1, 3, 5, 7, 8, 9, 11, 13, 15, 17, 18, 19>>
LateTwo == <<1, 1, 3, 1, 3, 0, 2, 6, 7, 10, 11, 10, 13, 12, 11, 6, 7, 4, 5>>
RandomSources == 1..3
Listed(t, i) == IF i <= Len(t) THEN t[i] ELSE i
RandomIndex(s, i) ==
  CASE s = 1 -> 0
    [] s = 2 -> Listed(TwosFirst, i)
    [] OTHER -> Listed(LateTwo, i)

\* Swap writing one of the two places only.
Swap_Overwrites(a, x, y) == [a EXCEPT ![x] = a[y]]

Swap(a, x, y) == [a EXCEPT ![x] = a[y], ![y] = a[x]]

\* The loop of shuffle(), i from a.length - 1 down to 1 (0-based indices).
RECURSIVE ShuffleFrom(_, _, _)
ShuffleFrom(a, i, s) ==
  IF i > 0
    THEN ShuffleFrom(Swap(a, i + 1, RandomIndex(s, i) + 1), i - 1, s)
    ELSE a

shuffle(arr, s) == ShuffleFrom(arr, Len(arr) - 1, s)

\* The deck as a sequence of card ids, under random source s.
buildTwoDecks(s) == [i \in 1..DeckSize |-> shuffle(cards, s)[i].id]

\* -------------------------------------------------------------- the room

VARIABLES
  room,    \* the room object of create_room
  ev,      \* the last event handled: its name, the socket, what was emitted
  online,  \* the socket ids that have not disconnected
  snap     \* the room as it was before the draw_card or auto_deal just
           \* handled, if any (valid: of a draw_card)

vars == <<room, ev, online, snap>>

\* What a handler emits: a broadcast of the new state (OK), an error_msg
\* with its message, nothing at all (Silent), or an uncaught TypeError.
OK == "ok"
Silent == "silent"
Fault == "TypeError"

NoAction == [type |-> Null, seat |-> Null, cardId |-> BogusId]
NoSnap == [valid |-> FALSE]

\* Objects keyed by socket id: functions on the set of keys present.
Has(f, k) == k \in DOMAIN f
Put(f, k, v) == [x \in (DOMAIN f) \cup {k} |-> IF x = k THEN v ELSE f[x]]
Delete(f, k) == [x \in (DOMAIN f) \ {k} |-> f[x]]
OrEmpty(f, k) == IF Has(f, k) THEN f ELSE Put(f, k, <<>>)
NoEntries == [x \in {} |-> <<>>]

Last(q) == q[Len(q)]
Front(q) == SubSeq(q, 1, Len(q) - 1)

\* hand.findIndex((c) => c.id === cid), 1-based; 0 when there is none.
FindIndex(hand, cid) ==
  IF \E i \in 1..Len(hand) : hand[i] = cid
    THEN CHOOSE i \in 1..Len(hand) :
           hand[i] = cid /\ \A j \in 1..(i - 1) : hand[j] # cid
    ELSE 0

\* hand.splice(idx, 1)
Splice(hand, idx) == SubSeq(hand, 1, idx - 1) \o SubSeq(hand, idx + 1, Len(hand))

IndexOfSeat(seat) ==
  IF seat \in Seats THEN (CHOOSE i \in 1..4 : SEATS[i] = seat) - 1 ELSE -1

\* getNextSeat stepping two seats on.
getNextSeat_SkipsOne(seat) == SEATS[((IndexOfSeat(seat) + 2) % 4) + 1]

getNextSeat(seat) == SEATS[((IndexOfSeat(seat) + 1) % 4) + 1]

seatOf(r, sid) ==
  IF \E s \in Seats : r.seats[s] = sid
    THEN SEATS[CHOOSE i \in 1..4 :
           r.seats[SEATS[i]] = sid /\ \A j \in 1..(i - 1) : r.seats[SEATS[j]] # sid]
    ELSE Null

PointsOfRank(rank) ==
  CASE rank = 5 -> 5
    [] rank = 10 -> 10
    [] rank = 13 -> 10
    [] OTHER -> 0

RECURSIVE pointsOf(_)
pointsOf(hand) ==
  IF hand = <<>> THEN 0
  ELSE PointsOfRank(RankOfId(hand[1])) + pointsOf(SubSeq(hand, 2, Len(hand)))

\* The room code: one room is modelled.
RoomCode == "ROOM"

\* safeRoomStateFor showing canReshuffle to every seated socket.
safeRoomStateFor_AnySeat(socketId, r) ==
  LET yourHand == IF Has(r.hands, socketId) THEN r.hands[socketId] ELSE <<>>
  IN  [ code |-> RoomCode,
        seats |-> r.seats,
        playerNames |-> r.playerNames,
        currentTurn |-> r.currentTurn,
        trumpSuit |-> r.trumpSuit,
        startingPlayer |-> r.startingPlayer,
        bottomEightCount |-> Len(r.bottomEight),
        phase |-> r.phase,
        started |-> r.started,
        deckCount |-> Len(r.deck),
        discardsCount |-> Len(r.discards),
        table |-> r.table,
        yourHand |-> yourHand,
        handCounts |-> [sid \in DOMAIN r.hands |-> Len(r.hands[sid])],
        attackersScore |-> 0,
        lastAction |-> r.lastAction,
        canReshuffle |-> /\ r.phase = "discarding_bottom_eight"
                         /\ r.startingPlayer # Null
                         /\ seatOf(r, socketId) # Null
                         /\ pointsOf(yourHand) < ReshuffleLimit,
        yourPoints |-> pointsOf(yourHand) ]

\* The view of the room sent to one socket.  A card is shown by its id, which
\* stands for the card object (id, suit, rank); attackersScore is set to 0 at
\* creation and never written.
safeRoomStateFor(socketId, r) ==
  LET yourHand == IF Has(r.hands, socketId) THEN r.hands[socketId] ELSE <<>>
  IN  [ code |-> RoomCode,
        seats |-> r.seats,
        playerNames |-> r.playerNames,
        currentTurn |-> r.currentTurn,
        trumpSuit |-> r.trumpSuit,
        startingPlayer |-> r.startingPlayer,
        bottomEightCount |-> Len(r.bottomEight),
        phase |-> r.phase,
        started |-> r.started,
        deckCount |-> Len(r.deck),
        discardsCount |-> Len(r.discards),
        table |-> r.table,
        yourHand |-> yourHand,
        handCounts |-> [sid \in DOMAIN r.hands |-> Len(r.hands[sid])],
        attackersScore |-> 0,
        lastAction |-> r.lastAction,
        canReshuffle |-> /\ r.phase = "discarding_bottom_eight"
                         /\ r.startingPlayer # Null
                         /\ seatOf(r, socketId) = r.startingPlayer
                         /\ pointsOf(yourHand) < ReshuffleLimit,
        yourPoints |-> pointsOf(yourHand) ]

Filled(r) == Cardinality({s \in Seats : r.seats[s] # NoSocket})

\* The room create_room builds, with the creator joined.
NewRoom(s) ==
  [ seats |-> [x \in Seats |-> NoSocket],
    playerNames |-> NoEntries,
    hands |-> Put(NoEntries, Creator, <<>>),
    table |-> Put(NoEntries, Creator, <<>>),
    discards |-> <<>>,
    deck |-> buildTwoDecks(s),
    bottomEight |-> <<>>,
    trumpSuit |-> Null,
    startingPlayer |-> Null,
    currentTurn |-> Null,
    phase |-> "waiting",
    started |-> FALSE,
    lastAction |-> NoAction ]

\* The entries the start gives every seated socket id.
RECURSIVE EnsureEntries(_, _)
EnsureEntries(f, sids) ==
  IF sids = {} THEN f
  ELSE LET sid == CHOOSE x \in sids : TRUE
       IN  EnsureEntries(OrEmpty(f, sid), sids \ {sid})

Seated(r) == {r.seats[s] : s \in Seats} \ {NoSocket}

\* The start as the sit handler of src/server/index.js makes it: no hands
\* or table entries are created.
StartGame_NoEntries(r) ==
  [r EXCEPT !.started = TRUE,
            !.phase = "drawing",
            !.currentTurn = "N",
            !.bottomEight = SubSeq(r.deck, 1, BottomCount),
            !.deck = SubSeq(r.deck, BottomCount + 1, Len(r.deck))]

StartGame(r) ==
  [r EXCEPT !.started = TRUE,
            !.phase = "drawing",
            !.currentTurn = "N",
            !.bottomEight = SubSeq(r.deck, 1, BottomCount),
            !.deck = SubSeq(r.deck, BottomCount + 1, Len(r.deck)),
            !.trumpSuit = Null,
            !.startingPlayer = Null,
            !.lastAction = NoAction,
            !.table = EnsureEntries(r.table, Seated(r)),
            !.hands = EnsureEntries(r.hands, Seated(r))]

\* ensureGameStartIfReady without the started flag.
ensureGameStartIfReady_NoFlag(r) ==
  IF Filled(r) = 4 THEN StartGame(r) ELSE r

ensureGameStartIfReady(r) ==
  IF Filled(r) = 4 /\ ~r.started THEN StartGame(r) ELSE r

\* The end of drawing as the draw_card handler of src/server/index.js has it:
\* straight to the playing phase, the starting player (or N) to play.
finishDrawingPhase_ToPlaying(r) ==
  [r EXCEPT !.phase = "playing",
            !.currentTurn = IF r.startingPlayer # Null THEN r.startingPlayer ELSE "N"]

finishDrawingPhase(r) ==
  [r EXCEPT !.phase = "awaiting_bottom_eight", !.currentTurn = Null]

\* What a handler leaves behind: the room and what it emitted.
Res(r, msg) == [room |-> r, msg |-> msg]

\* SetsTrump without the test that no trump is set yet.
SetsTrump_AnyTwo(r, card) == RankOfId(card) = 2

SetsTrump(r, card) == RankOfId(card) = 2 /\ r.trumpSuit = Null

DrawnRoom(r, seat, sid, card) ==
  [r EXCEPT !.deck = Front(r.deck),
            !.hands = [r.hands EXCEPT ![sid] = Append(r.hands[sid], card)],
            !.trumpSuit = IF SetsTrump(r, card) THEN SuitOfId(card) ELSE r.trumpSuit,
            !.startingPlayer = IF SetsTrump(r, card) THEN seat ELSE r.startingPlayer,
            !.lastAction = [type |-> "draw", seat |-> seat, cardId |-> card]]

\* drawOneForSeat without the hand limit.
drawOneForSeat_NoLimit(r, seat) ==
  LET sid == r.seats[seat]
  IN  IF sid = NoSocket THEN Res(r, "Seat empty.")
      ELSE IF ~Has(r.hands, sid) THEN Res(r, Fault)
      ELSE IF Len(r.deck) = 0 THEN Res(r, "Deck empty.")
      ELSE Res(DrawnRoom(r, seat, sid, Last(r.deck)), OK)

\* room.hands[sid].length of a socket id with no hands entry throws.
drawOneForSeat(r, seat) ==
  LET sid == r.seats[seat]
  IN  IF sid = NoSocket THEN Res(r, "Seat empty.")
      ELSE IF ~Has(r.hands, sid) THEN Res(r, Fault)
      ELSE IF Len(r.hands[sid]) >= HandLimit THEN Res(r, "Hand full.")
      ELSE IF Len(r.deck) = 0 THEN Res(r, "Deck empty.")
      ELSE Res(DrawnRoom(r, seat, sid, Last(r.deck)), OK)

\* ------------------------------------------------------------- handlers
\* Each handler is a function of the room, the calling socket id and the
\* payload, giving the room it leaves and what it emitted.

join_room(r, p) ==
  Res([r EXCEPT !.hands = OrEmpty(r.hands, p), !.table = OrEmpty(r.table, p)], OK)

Seat(r, p, seat, name) ==
  [r EXCEPT !.seats = [s \in Seats |->
                         IF s = seat THEN p
                         ELSE IF r.seats[s] = p THEN NoSocket ELSE r.seats[s]],
            !.playerNames = IF name # Null THEN Put(r.playerNames, p, name)
                            ELSE r.playerNames]

\* sit without the test that the seat is free.
sit_NoSeatCheck(r, p, seat, name) ==
  Res(ensureGameStartIfReady(Seat(r, p, seat, name)), OK)

sit(r, p, seat, name) ==
  IF r.seats[seat] # NoSocket /\ r.seats[seat] # p
    THEN Res(r, "Seat already taken.")
    ELSE Res(ensureGameStartIfReady(Seat(r, p, seat, name)), OK)

\* AfterDraw leaving the phase alone when the pile is empty.
AfterDraw_NoFinish(r, seat) == [r EXCEPT !.currentTurn = getNextSeat(seat)]

AfterDraw(r, seat) ==
  LET r1 == [r EXCEPT !.currentTurn = getNextSeat(seat)]
  IN  IF Len(r1.deck) = 0 THEN finishDrawingPhase(r1) ELSE r1

draw_card(r, p) ==
  LET seat == seatOf(r, p)
  IN  IF r.phase # "drawing" THEN Res(r, "Not in drawing phase.")
      ELSE IF seat = Null THEN Res(r, "You must be seated.")
      ELSE IF r.currentTurn # seat THEN Res(r, "Not your turn!")
      ELSE IF Len(r.deck) = 0 THEN Res(finishDrawingPhase(r), OK)
      ELSE LET res == drawOneForSeat(r, seat)
           IN  IF res.msg # OK THEN res ELSE Res(AfterDraw(res.room, seat), OK)

\* The while loop of auto_deal from `seat` with `safety` iterations left:
\* the room and the seat it stops at, or a TypeError on the way.
RECURSIVE DealLoop(_, _, _)
DealLoop(r, seat, safety) ==
  IF Len(r.deck) > 0 /\ safety > 0
    THEN LET sid == r.seats[seat]
         IN  IF sid = NoSocket THEN [room |-> r, seat |-> seat, fault |-> FALSE]
             ELSE IF ~Has(r.hands, sid) THEN [room |-> r, seat |-> seat, fault |-> TRUE]
             ELSE IF Len(r.hands[sid]) < HandLimit
               THEN DealLoop(drawOneForSeat(r, seat).room, getNextSeat(seat), safety - 1)
               ELSE DealLoop(r, getNextSeat(seat), safety - 1)
    ELSE [room |-> r, seat |-> seat, fault |-> FALSE]

\* auto_deal finishing the phase before it stores the seat it stopped at.
auto_deal_KeepsTurn(r, p) ==
  IF r.phase # "drawing" THEN Res(r, "Not in drawing phase.")
  ELSE IF Filled(r) # 4 THEN Res(r, "Need 4 players seated to auto-deal.")
  ELSE LET from == IF r.currentTurn # Null THEN r.currentTurn ELSE "N"
           d == DealLoop(r, from, SafetyBound)
       IN  IF d.fault THEN Res(r, Fault)
           ELSE Res([finishDrawingPhase(d.room) EXCEPT !.currentTurn = d.seat], OK)

\* auto_deal dealing from N whatever the turn.
auto_deal_FromNorth(r, p) ==
  IF r.phase # "drawing" THEN Res(r, "Not in drawing phase.")
  ELSE IF Filled(r) # 4 THEN Res(r, "Need 4 players seated to auto-deal.")
  ELSE LET d == DealLoop(r, "N", SafetyBound)
       IN  IF d.fault THEN Res(r, Fault)
           ELSE Res(finishDrawingPhase([d.room EXCEPT !.currentTurn = d.seat]), OK)

auto_deal(r, p) ==
  IF r.phase # "drawing" THEN Res(r, "Not in drawing phase.")
  ELSE IF Filled(r) # 4 THEN Res(r, "Need 4 players seated to auto-deal.")
  ELSE LET from == IF r.currentTurn # Null THEN r.currentTurn ELSE "N"
           d == DealLoop(r, from, SafetyBound)
       IN  IF d.fault THEN Res(r, Fault)
           ELSE Res(finishDrawingPhase([d.room EXCEPT !.currentTurn = d.seat]), OK)

ClearsTrump(r, last) == r.startingPlayer = last.seat

\* The undo leaving the last action in place.
Undone_KeepsLast(r, p, last, idx) ==
  [r EXCEPT !.hands = [r.hands EXCEPT ![p] = Splice(r.hands[p], idx)],
            !.deck = Append(r.deck, r.hands[p][idx]),
            !.trumpSuit = IF ClearsTrump(r, last) THEN Null ELSE r.trumpSuit,
            !.startingPlayer = IF ClearsTrump(r, last) THEN Null ELSE r.startingPlayer,
            !.currentTurn = last.seat]

\* The undo clearing the trump suit and leaving the starting player.
Undone_KeepsStarter(r, p, last, idx) ==
  [r EXCEPT !.hands = [r.hands EXCEPT ![p] = Splice(r.hands[p], idx)],
            !.deck = Append(r.deck, r.hands[p][idx]),
            !.trumpSuit = IF ClearsTrump(r, last) THEN Null ELSE r.trumpSuit,
            !.currentTurn = last.seat,
            !.lastAction = NoAction]

Undone(r, p, last, idx) ==
  [r EXCEPT !.hands = [r.hands EXCEPT ![p] = Splice(r.hands[p], idx)],
            !.deck = Append(r.deck, r.hands[p][idx]),
            !.trumpSuit = IF ClearsTrump(r, last) THEN Null ELSE r.trumpSuit,
            !.startingPlayer = IF ClearsTrump(r, last) THEN Null ELSE r.startingPlayer,
            !.currentTurn = last.seat,
            !.lastAction = NoAction]

\* undo_draw forgetting the last action when it refuses another socket.
undo_draw_ForgetsOnRefusal(r, p) ==
  LET last == r.lastAction
  IN  IF last.type # "draw" THEN Res(r, "Nothing to undo.")
      ELSE IF r.phase # "drawing" THEN Res(r, "Undo only allowed during drawing phase.")
      ELSE IF r.seats[last.seat] # p
        THEN Res([r EXCEPT !.lastAction = NoAction], "You can only undo your own draw.")
      ELSE IF ~Has(r.hands, p) THEN Res(r, Fault)
      ELSE LET idx == FindIndex(r.hands[p], last.cardId)
           IN  IF idx > 0 THEN Res(Undone(r, p, last, idx), OK) ELSE Res(r, Silent)

undo_draw(r, p) ==
  LET last == r.lastAction
  IN  IF last.type # "draw" THEN Res(r, "Nothing to undo.")
      ELSE IF r.phase # "drawing" THEN Res(r, "Undo only allowed during drawing phase.")
      ELSE IF r.seats[last.seat] # p THEN Res(r, "You can only undo your own draw.")
      ELSE IF ~Has(r.hands, p) THEN Res(r, Fault)
      ELSE LET idx == FindIndex(r.hands[p], last.cardId)
           IN  IF idx > 0 THEN Res(Undone(r, p, last, idx), OK) ELSE Res(r, Silent)

\* start_bottom_eight open to any socket with a hand.
start_bottom_eight_AnySeat(r, p) ==
  IF r.phase # "awaiting_bottom_eight" THEN Res(r, "Not time for bottom 8 yet.")
  ELSE IF r.startingPlayer = Null THEN Res(r, "Starting player not set (no 2 drawn yet).")
  ELSE IF ~Has(r.hands, p) THEN Res(r, Fault)
  ELSE Res([r EXCEPT !.hands = [r.hands EXCEPT ![p] = r.hands[p] \o r.bottomEight],
                     !.bottomEight = <<>>,
                     !.phase = "discarding_bottom_eight"], OK)

start_bottom_eight(r, p) ==
  IF r.phase # "awaiting_bottom_eight" THEN Res(r, "Not time for bottom 8 yet.")
  ELSE IF r.startingPlayer = Null THEN Res(r, "Starting player not set (no 2 drawn yet).")
  ELSE IF seatOf(r, p) # r.startingPlayer
    THEN Res(r, "Only starting player can pick up bottom 8.")
  ELSE IF ~Has(r.hands, p) THEN Res(r, Fault)
  ELSE Res([r EXCEPT !.hands = [r.hands EXCEPT ![p] = r.hands[p] \o r.bottomEight],
                     !.bottomEight = <<>>,
                     !.phase = "discarding_bottom_eight"], OK)

\* The loop that takes the cards named by cardIds out of the hand, one
\* identifier at a time: the hand left and the cards taken, in order.
RECURSIVE TakeCards(_, _, _)
TakeCards(hand, cardIds, taken) ==
  IF cardIds = <<>> THEN [hand |-> hand, taken |-> taken]
  ELSE LET idx == FindIndex(hand, cardIds[1])
           rest == SubSeq(cardIds, 2, Len(cardIds))
       IN  IF idx > 0
             THEN TakeCards(Splice(hand, idx), rest, Append(taken, hand[idx]))
             ELSE TakeCards(hand, rest, taken)

\* discard_bottom_eight without the starting-player test, as the handler of
\* src/server/index.js has it.
discard_bottom_eight_AnySeat(r, p, cardIds) ==
  IF r.phase # "discarding_bottom_eight" THEN Res(r, "Not discarding bottom 8 right now.")
  ELSE IF Len(cardIds) # BottomCount THEN Res(r, "Must discard exactly 8 cards.")
  ELSE IF ~Has(r.hands, p) THEN Res(r, Fault)
  ELSE LET t == TakeCards(r.hands[p], cardIds, <<>>)
           r1 == [r EXCEPT !.hands = [r.hands EXCEPT ![p] = t.hand]]
       IN  IF Len(t.taken) # BottomCount
             THEN Res(r1, "Could not find all 8 selected cards in hand.")
             ELSE Res([r1 EXCEPT !.bottomEight = t.taken,
                                 !.phase = "playing",
                                 !.currentTurn = r.startingPlayer], OK)

\* The hand is spliced in place while the identifiers are looked up, before
\* the count of cards found is tested.
discard_bottom_eight(r, p, cardIds) ==
  IF r.phase # "discarding_bottom_eight" THEN Res(r, "Not discarding bottom 8 right now.")
  ELSE IF seatOf(r, p) # r.startingPlayer
    THEN Res(r, "Only starting player can discard bottom 8.")
  ELSE IF Len(cardIds) # BottomCount THEN Res(r, "Must discard exactly 8 cards.")
  ELSE IF ~Has(r.hands, p) THEN Res(r, Fault)
  ELSE LET t == TakeCards(r.hands[p], cardIds, <<>>)
           r1 == [r EXCEPT !.hands = [r.hands EXCEPT ![p] = t.hand]]
       IN  IF Len(t.taken) # BottomCount
             THEN Res(r1, "Could not find all 8 selected cards in hand.")
             ELSE Res([r1 EXCEPT !.bottomEight = t.taken,
                                 !.phase = "playing",
                                 !.currentTurn = r.startingPlayer], OK)

HandPoints(r, p) == IF Has(r.hands, p) THEN pointsOf(r.hands[p]) ELSE 0

\* ResetRound without the loop that clears the hands.
ResetRound_KeepsHands(r, s) ==
  LET fresh == buildTwoDecks(s)
  IN  [r EXCEPT !.deck = SubSeq(fresh, BottomCount + 1, Len(fresh)),
                !.bottomEight = SubSeq(fresh, 1, BottomCount),
                !.discards = <<>>,
                !.table = NoEntries,
                !.lastAction = NoAction,
                !.trumpSuit = Null,
                !.startingPlayer = Null,
                !.phase = "drawing",
                !.currentTurn = "N"]

\* ResetRound dropping the 8 cards it takes off the fresh deck.
ResetRound_NoBottom(r, s) ==
  LET fresh == buildTwoDecks(s)
      seated == Seated(r)
  IN  [r EXCEPT !.deck = SubSeq(fresh, BottomCount + 1, Len(fresh)),
                !.bottomEight = <<>>,
                !.discards = <<>>,
                !.table = [x \in seated |-> <<>>],
                !.lastAction = NoAction,
                !.trumpSuit = Null,
                !.startingPlayer = Null,
                !.phase = "drawing",
                !.currentTurn = "N",
                !.hands = [x \in (DOMAIN r.hands) \cup seated |->
                             IF x \in seated THEN <<>> ELSE r.hands[x]]]

ResetRound(r, s) ==
  LET fresh == buildTwoDecks(s)
      seated == Seated(r)
  IN  [r EXCEPT !.deck = SubSeq(fresh, BottomCount + 1, Len(fresh)),
                !.bottomEight = SubSeq(fresh, 1, BottomCount),
                !.discards = <<>>,
                !.table = [x \in seated |-> <<>>],
                !.lastAction = NoAction,
                !.trumpSuit = Null,
                !.startingPlayer = Null,
                !.phase = "drawing",
                !.currentTurn = "N",
                !.hands = [x \in (DOMAIN r.hands) \cup seated |->
                             IF x \in seated THEN <<>> ELSE r.hands[x]]]

reshuffle_round(r, p, s) ==
  IF r.phase # "discarding_bottom_eight"
    THEN Res(r, "Reshuffle only allowed during bottom-8 exchange.")
  ELSE IF seatOf(r, p) # r.startingPlayer THEN Res(r, "Only starting player can reshuffle.")
  ELSE IF HandPoints(r, p) >= ReshuffleLimit
    THEN Res(r, "Reshuffle only allowed if you have <25 points.")
  ELSE Res(ResetRound(r, s), OK)

\* play_cards without the turn test.
play_cards_AnyTurn(r, p, cardIds) ==
  LET seat == seatOf(r, p)
  IN  IF r.phase # "playing" THEN Res(r, Silent)
      ELSE IF seat = Null THEN Res(r, "You must be seated.")
      ELSE LET hand == IF Has(r.hands, p) THEN r.hands[p] ELSE <<>>
               t == TakeCards(hand, cardIds, <<>>)
           IN  Res([r EXCEPT !.hands = IF Has(r.hands, p)
                                         THEN [r.hands EXCEPT ![p] = t.hand]
                                         ELSE r.hands,
                             !.table = Put(r.table, p, t.taken),
                             !.currentTurn = getNextSeat(seat)], OK)

play_cards(r, p, cardIds) ==
  LET seat == seatOf(r, p)
  IN  IF r.phase # "playing" THEN Res(r, Silent)
      ELSE IF seat = Null THEN Res(r, "You must be seated.")
      ELSE IF r.currentTurn # seat THEN Res(r, "Not your turn!")
      ELSE LET hand == IF Has(r.hands, p) THEN r.hands[p] ELSE <<>>
               t == TakeCards(hand, cardIds, <<>>)
           IN  Res([r EXCEPT !.hands = IF Has(r.hands, p)
                                         THEN [r.hands EXCEPT ![p] = t.hand]
                                         ELSE r.hands,
                             !.table = Put(r.table, p, t.taken),
                             !.currentTurn = getNextSeat(seat)], OK)

\* The table entries in the order their keys are visited (taken here in
\* socket-id order), concatenated.
RECURSIVE TableCards(_, _)
TableCards(table, sids) ==
  IF sids = {} THEN <<>>
  ELSE LET sid == CHOOSE x \in sids : \A y \in sids : x <= y
       IN  table[sid] \o TableCards(table, sids \ {sid})

\* clear_trick leaving the cards on the table as well.
clear_trick_KeepsTable(r, p) ==
  Res([r EXCEPT !.discards = r.discards \o TableCards(r.table, DOMAIN r.table)], OK)

clear_trick(r, p) ==
  Res([r EXCEPT !.discards = r.discards \o TableCards(r.table, DOMAIN r.table),
                !.table = [x \in DOMAIN r.table |-> <<>>]], OK)

Changed(r, p) == (\E s \in Seats : r.seats[s] = p) \/ Has(r.hands, p)

disconnect(r, p) ==
  LET r1 == [r EXCEPT !.seats = [s \in Seats |->
                                   IF r.seats[s] = p THEN NoSocket ELSE r.seats[s]]]
      r2 == IF Has(r.hands, p)
              THEN [r1 EXCEPT !.hands = Delete(r.hands, p),
                              !.table = Delete(r.table, p),
                              !.playerNames = Delete(r.playerNames, p)]
              ELSE r1
  IN  Res(r2, IF Changed(r, p) THEN OK ELSE Silent)

\* ---------------------------------------------------------- the payloads

\* The seats a socket asks for, by its number: every seat is asked for, the
\* creator may move between N and E, and E is contested.
SeatInputs(p) ==
  CASE p = Creator -> {"N", "E"}
    [] p % 4 = 3 -> {"S"}
    [] p % 4 = 0 -> {"W"}
    [] OTHER -> {"E"}

\* The sockets that send join_room before they sit, and those that drop
\* their connection: the occupant of E and the late comers.
Joiners == {p \in Sockets : p % 4 \in {1, 2}}
Droppers == {p \in Sockets : p # Creator /\ p % 4 \in {1, 2}}

\* The display name a socket's sit carries (Null: none given).
NameInput(p) == IF p = Creator THEN Null ELSE "Ann"

Take(q, n) == SubSeq(q, 1, n)
Drop(q, n) == SubSeq(q, n + 1, Len(q))

\* The selections a client sends to discard_bottom_eight: the first eight
\* cards of its hand, the last eight, seven of them with an identifier of no
\* card, seven of them with one repeated, and a selection of one card.
DiscardInputs(hand) ==
  IF Len(hand) < BottomCount THEN {<<BogusId>>}
  ELSE { Take(hand, BottomCount),
         Drop(hand, Len(hand) - BottomCount),
         Append(Take(hand, BottomCount - 1), BogusId),
         Append(Take(hand, BottomCount - 1), hand[1]),
         Take(hand, 1) }

\* The clients play the first MaxPlays turns of the first trick: how many
\* turns were taken is how far currentTurn is from startingPlayer.
TurnsTaken(r) == (IndexOfSeat(r.currentTurn) - IndexOfSeat(r.startingPlayer) + 4) % 4

\* The selections a client sends to play_cards: an identifier of no card,
\* alone or followed by the first card of its hand.
PlayInputs(hand) ==
  IF hand = <<>> THEN {<<BogusId>>} ELSE {<<BogusId>>, <<BogusId, hand[1]>>}

HandOf(r, p) == IF Has(r.hands, p) THEN r.hands[p] ELSE <<>>

\* --------------------------------------------------------------- actions

\* An uncaught TypeError in a handler ends the process.
Running == ev.msg # Fault

\* The record of an event: its name, what it emitted and, for a handler
\* that reads socket.id and went through, the socket id.
Event(op, p, msg) == [op |-> op, sid |-> IF msg = OK THEN p ELSE NoSocket, msg |-> msg]

Handle(op, p, res) ==
  /\ Running
  /\ room' = res.room
  /\ ev' = Event(op, p, res.msg)
  /\ snap' = NoSnap
  /\ UNCHANGED online

\* A client joins once, and asks for a seat it does not hold.
JoinRoom == \E p \in (online \cap Joiners) \ DOMAIN room.hands : Handle("join_room", p, join_room(room, p))

Sit == \E p \in online : \E seat \in SeatInputs(p) :
         /\ room.seats[seat] # p
         /\ Handle("sit", p, sit(room, p, seat, NameInput(p)))

DrawCard == \E p \in online :
  LET res == draw_card(room, p)
  IN  /\ Running
      /\ room' = res.room
      /\ ev' = Event("draw_card", p, res.msg)
      /\ snap' = IF res.msg = OK
                   THEN [valid |-> TRUE, seat |-> seatOf(room, p), deck |-> room.deck,
                         hands |-> room.hands, currentTurn |-> room.currentTurn,
                         trumpSuit |-> room.trumpSuit,
                         startingPlayer |-> room.startingPlayer]
                   ELSE NoSnap
      /\ UNCHANGED online

AutoDeal == \E p \in online :
  LET res == auto_deal(room, p)
  IN  /\ Running
      /\ room' = res.room
      /\ ev' = Event("auto_deal", NoSocket, res.msg)
      /\ snap' = IF res.msg = OK THEN [valid |-> FALSE, before |-> room] ELSE NoSnap
      /\ UNCHANGED online

UndoDraw == \E p \in online : Handle("undo_draw", p, undo_draw(room, p))

StartBottomEight == \E p \in online :
  Handle("start_bottom_eight", p, start_bottom_eight(room, p))

DiscardBottomEight == \E p \in online : \E cardIds \in DiscardInputs(HandOf(room, p)) :
  Handle("discard_bottom_eight", p, discard_bottom_eight(room, p, cardIds))

ReshuffleRound == \E p \in online, s \in RandomSources :
  Handle("reshuffle_round", p, reshuffle_round(room, p, s))

PlayCards == \E p \in online : \E cardIds \in PlayInputs(HandOf(room, p)) :
  /\ room.phase = "playing" => TurnsTaken(room) < MaxPlays
  /\ Handle("play_cards", p, play_cards(room, p, cardIds))

ClearTrick == \E p \in online : Handle("clear_trick", NoSocket, clear_trick(room, p))

Disconnect == \E p \in online \cap Droppers :
  LET res == disconnect(room, p)
  IN  /\ Running
      /\ room' = res.room
      /\ ev' = [op |-> "disconnect", sid |-> p, msg |-> res.msg]
      /\ snap' = NoSnap
      /\ online' = online \ {p}

Init ==
  /\ \E s \in RandomSources : room = NewRoom(s)
  /\ ev = Event("create_room", Creator, OK)
  /\ online = Sockets
  /\ snap = NoSnap

Next ==
  \/ JoinRoom
  \/ Sit
  \/ DrawCard
  \/ AutoDeal
  \/ UndoDraw
  \/ StartBottomEight
  \/ DiscardBottomEight
  \/ ReshuffleRound
  \/ PlayCards
  \/ ClearTrick
  \/ Disconnect

Spec == Init /\ [][Next]_vars

\* ---------------------------------------------------------------- claims

RECURSIVE SumLen(_, _)
SumLen(f, keys) ==
  IF keys = {} THEN 0
  ELSE LET k == CHOOSE x \in keys : TRUE
       IN  Len(f[k]) + SumLen(f, keys \ {k})

\* The cards the room holds, over all its piles, hands and table entries.
TotalCards(r) ==
  Len(r.deck) + SumLen(r.hands, DOMAIN r.hands) + Len(r.bottomEight)
    + SumLen(r.table, DOMAIN r.table) + Len(r.discards)

Went(op) == ev'.op = op /\ ev'.msg = OK

Holds(r, p, card) == Has(r.hands, p) /\ \E i \in 1..Len(r.hands[p]) : r.hands[p][i] = card

\* C1: in every reachable state the draw pile, the hands, the bottom pile,
\* the table entries and the discards together hold the whole deck (108
\* cards in the source, DeckSize here).
CardConservation == TotalCards(room) = DeckSize

\* C2: a discard_bottom_eight rejected because fewer than eight identifiers
\* resolve leaves the room as it was: no card leaves the hand.
DiscardAllOrNothing ==
  [][(ev'.op = "discard_bottom_eight"
        /\ ev'.msg = "Could not find all 8 selected cards in hand.")
      => room' = room]_vars

\* C3: an undo_draw right after a draw_card that left the room in the
\* drawing phase gives back the draw pile, the hands, the turn, the trump
\* suit and the starting player of the state before that draw.
UndoRestoresDraw ==
  [][(snap.valid /\ room.phase = "drawing" /\ Went("undo_draw"))
      => /\ room'.deck = snap.deck
         /\ room'.hands = snap.hands
         /\ room'.currentTurn = snap.currentTurn
         /\ room'.trumpSuit = snap.trumpSuit
         /\ room'.startingPlayer = snap.startingPlayer]_vars

\* The cards a step took off the draw pile, in the order they were drawn.
DrawnCards(r, r2) ==
  [i \in 1..(Len(r.deck) - Len(r2.deck)) |-> r.deck[Len(r.deck) - i + 1]]

\* The place of the first rank-2 card in a sequence of cards; 0 for none.
FirstTwo(q) ==
  IF \E i \in 1..Len(q) : RankOfId(q[i]) = 2
    THEN CHOOSE i \in 1..Len(q) :
           RankOfId(q[i]) = 2 /\ \A j \in 1..(i - 1) : RankOfId(q[j]) # 2
    ELSE 0

\* C4: a draw_card or auto_deal changes the trump suit and the starting
\* player only when none is set, and then to the suit of the first rank-2
\* card it draws and the seat of the socket that drew it; with no rank-2
\* card drawn they stay unset.
TrumpFixedOnce ==
  [][(Went("draw_card") \/ Went("auto_deal"))
      => LET drawn == DrawnCards(room, room')
             k == FirstTwo(drawn)
         IN  IF room.trumpSuit # Null
               THEN /\ room'.trumpSuit = room.trumpSuit
                    /\ room'.startingPlayer = room.startingPlayer
             ELSE IF k = 0
               THEN room'.trumpSuit = Null /\ room'.startingPlayer = Null
             ELSE /\ room'.trumpSuit = SuitOfId(drawn[k])
                  /\ room'.startingPlayer \in Seats
                  /\ Holds(room', room'.seats[room'.startingPlayer], drawn[k])]_vars

\* A rank-2 card of another suit was just drawn and the trump stayed.
TrumpKeptOnLaterTwo ==
  /\ ev.op = "draw_card" /\ ev.msg = OK
  /\ RankOfId(room.lastAction.cardId) = 2
  /\ room.trumpSuit # Null
  /\ room.trumpSuit # SuitOfId(room.lastAction.cardId)

\* C5: the trump suit and the starting player are both set or both unset.
TrumpAndStarterTogether == (room.trumpSuit = Null) <=> (room.startingPlayer = Null)

\* An undo has just cleared both: a rank-2 card is held and no trump is set.
BothClearedByUndo ==
  /\ ev.op = "undo_draw" /\ ev.msg = OK
  /\ room.trumpSuit = Null /\ room.startingPlayer = Null
  /\ \E p \in DOMAIN room.hands : \E i \in 1..Len(room.hands[p]) :
       RankOfId(room.hands[p][i]) = 2

\* C6: in the drawing phase no hand exceeds the hand limit (25 in the
\* source, HandLimit here); a draw_card that goes through is by a hand below
\* the limit, and one answered "Hand full." changes nothing.
HandLimitKept ==
  /\ [](room.phase = "drawing"
          => \A p \in DOMAIN room.hands : Len(room.hands[p]) <= HandLimit)
  /\ [][/\ Went("draw_card") => Len(room.hands[ev'.sid]) < HandLimit
        /\ (ev'.op = "draw_card" /\ ev'.msg = "Hand full.")
             => /\ room' = room
                /\ room.phase = "drawing"
                /\ Len(room.hands[room.seats[room.currentTurn]]) = HandLimit]_vars

\* A draw_card was refused for a full hand.
HandFullRefused == ev.op = "draw_card" /\ ev.msg = "Hand full."

\* C7: no socket holds two seats; a sit that goes through takes a seat that
\* was free or the caller's own, and moves no other socket; a sit answered
\* "Seat already taken." leaves the seats as they were.
SeatExclusive ==
  /\ [](\A s1, s2 \in Seats :
          (s1 # s2 /\ room.seats[s1] = room.seats[s2]) => room.seats[s1] = NoSocket)
  /\ [][/\ Went("sit")
             => /\ \E s \in Seats : /\ room'.seats[s] = ev'.sid
                                    /\ room.seats[s] \in {NoSocket, ev'.sid}
                /\ \A s \in Seats :
                     (room.seats[s] \notin {NoSocket, ev'.sid})
                       => room'.seats[s] = room.seats[s]
        /\ (ev'.op = "sit" /\ ev'.msg = "Seat already taken.")
             => room'.seats = room.seats]_vars

\* A sit was refused in a room not yet full, and the seats are exclusive.
SeatTakenRefused ==
  /\ ev.op = "sit" /\ ev.msg = "Seat already taken."
  /\ Filled(room) < 4

\* C8: once the room has started, a sit changes the seats and the names
\* only, also when it fills the four seats again.
StartsOnce ==
  [][(room.started /\ ev'.op = "sit")
      => /\ room'.phase = room.phase
         /\ room'.deck = room.deck
         /\ room'.bottomEight = room.bottomEight
         /\ room'.hands = room.hands
         /\ room'.table = room.table
         /\ room'.discards = room.discards
         /\ room'.currentTurn = room.currentTurn
         /\ room'.trumpSuit = room.trumpSuit
         /\ room'.startingPlayer = room.startingPlayer
         /\ room'.lastAction = room.lastAction
         /\ room'.started]_vars

\* A sit has filled the four seats again after a socket left a started room
\* in which cards were drawn.
SeatsRefilled ==
  /\ ev.op = "sit" /\ ev.msg = OK
  /\ Filled(room) = 4
  /\ online # Sockets
  /\ Len(room.deck) < DeckSize - BottomCount

\* C9: the room is in the waiting phase until it starts; the sit that first
\* fills the four seats leaves it drawing, N to draw, 8 cards in the bottom
\* pile and the rest (100 in the source) in the draw pile, no trump, no
\* starting player, no last action, and an empty hand and table entry for
\* each seated socket.
StartPostState ==
  /\ [](~room.started => room.phase = "waiting")
  /\ [][(~room.started /\ ev'.op = "sit" /\ Filled(room') = 4)
         => /\ room.phase = "waiting"
            /\ room'.phase = "drawing"
            /\ room'.currentTurn = "N"
            /\ Len(room'.bottomEight) = BottomCount
            /\ Len(room'.deck) = DeckSize - BottomCount
            /\ room'.trumpSuit = Null
            /\ room'.startingPlayer = Null
            /\ room'.lastAction = NoAction
            /\ \A s \in Seats :
                 /\ Has(room'.hands, room'.seats[s])
                 /\ room'.hands[room'.seats[s]] = <<>>
                 /\ Has(room'.table, room'.seats[s])
                 /\ room'.table[room'.seats[s]] = <<>>]_vars

\* The room has just started on the sit of a socket that never sent
\* join_room, with E held by a late comer.
StartedOnLastSit ==
  /\ ev.op = "sit" /\ ev.msg = OK /\ ev.sid \notin Joiners
  /\ room.phase = "drawing"
  /\ Len(room.deck) = DeckSize - BottomCount
  /\ room.seats["E"] \notin {NoSocket, Creator, 2}

\* The seat after each seat, clockwise.
Clockwise == [s \in Seats |->
  CASE s = "N" -> "E" [] s = "E" -> "S" [] s = "S" -> "W" [] OTHER -> "N"]

\* C10: a draw_card goes through only in the drawing phase for the socket
\* in the seat whose turn it is; it moves the top card of the draw pile to
\* the end of that socket's hand, leaves the other hands alone, records the
\* draw as the last action and passes the turn clockwise (to no seat when
\* the pile is now empty).
DrawInTurn ==
  [][Went("draw_card")
      => LET p == ev'.sid
             seat == room.currentTurn
             card == Last(room.deck)
         IN  /\ room.phase = "drawing"
             /\ seat \in Seats
             /\ room.seats[seat] = p
             /\ room'.deck = Front(room.deck)
             /\ room'.hands = [room.hands EXCEPT ![p] = Append(room.hands[p], card)]
             /\ room'.lastAction = [type |-> "draw", seat |-> seat, cardId |-> card]
             /\ room'.currentTurn =
                  IF room'.deck = <<>> THEN Null ELSE Clockwise[seat]]_vars

\* A draw by W has passed the turn round to N.
TurnWrapped ==
  /\ ev.op = "draw_card" /\ ev.msg = OK
  /\ room.phase = "drawing"
  /\ room.lastAction.seat = "W"
  /\ room.currentTurn = "N"

\* C11: the draw_card or auto_deal that takes the last card of the draw pile
\* leaves the room awaiting the bottom-eight pickup with no seat on turn; the
\* drawing phase never has an empty draw pile.
EndOfDrawing ==
  /\ [](room.phase = "drawing" => room.deck # <<>>)
  /\ [][((Went("draw_card") \/ Went("auto_deal"))
           /\ room.deck # <<>> /\ room'.deck = <<>>)
         => /\ room'.phase = "awaiting_bottom_eight"
            /\ room'.currentTurn = Null]_vars

\* A draw_card has just taken the last card of the draw pile.
LastCardDrawn ==
  /\ ev.op = "draw_card" /\ ev.msg = OK
  /\ room.deck = <<>>
  /\ room.lastAction.type = "draw"
  /\ room.phase = "awaiting_bottom_eight"

\* The draw_card requests of the seats in ring order from the seat on turn,
\* each sent by the occupant of the seat on turn, until the phase is no
\* longer drawing or a request is refused: the room left and what the last
\* request emitted.  With passFull, a seat refused for a full hand is passed
\* over: the turn moves on without a draw.
RECURSIVE ManualDeal(_, _, _)
ManualDeal(r, passFull, fuel) ==
  IF r.phase # "drawing" THEN Res(r, OK)
  ELSE IF fuel = 0 THEN Res(r, "stuck")
  ELSE LET seat == r.currentTurn
           res == draw_card(r, r.seats[seat])
       IN  IF res.msg = OK THEN ManualDeal(res.room, passFull, fuel - 1)
           ELSE IF res.msg = "Hand full." /\ passFull
             THEN ManualDeal([r EXCEPT !.currentTurn = getNextSeat(seat)],
                             passFull, fuel - 1)
           ELSE res

DealFuel == 4 * DeckSize

\* C12 as stated: an auto_deal in a drawing room with four seats filled
\* leaves the room the manual draw_card requests in ring order, skipping no
\* seat, leave when they have emptied the draw pile.
AutoDealAsManual ==
  [][(room.phase = "drawing" /\ Filled(room) = 4 /\ Went("auto_deal"))
      => LET m == ManualDeal(room, FALSE, DealFuel)
         IN  m.msg = OK /\ room' = m.room]_vars

\* C12, amended: an auto_deal in a drawing room with four seats filled ends
\* as the manual draw_card requests in ring order end when a seat whose hand
\* is at the limit is passed over: the same outcome and, when it goes
\* through, the same room.
AutoDealAsManualPassingFull ==
  [][(room.phase = "drawing" /\ Filled(room) = 4 /\ ev'.op = "auto_deal")
      => LET m == ManualDeal(room, TRUE, DealFuel)
         IN  /\ ev'.msg = m.msg
             /\ ev'.msg = OK => room' = m.room]_vars

\* An auto_deal has just dealt the pile out from a room in which the manual
\* requests stop at a full hand.
DealtPastFullHand ==
  /\ ev.op = "auto_deal" /\ ev.msg = OK
  /\ Filled(snap.before) = 4
  /\ ManualDeal(snap.before, FALSE, DealFuel).msg = "Hand full."
  /\ room.deck = <<>>

\* C13: an auto_deal in a drawing room with four seats filled goes through
\* and leaves the draw pile empty and the room awaiting the bottom-eight
\* pickup; any other auto_deal is refused and changes nothing.
AutoDealExhausts ==
  [][(ev'.op = "auto_deal")
      => IF room.phase = "drawing" /\ Filled(room) = 4
           THEN /\ ev'.msg = OK
                /\ room'.deck = <<>>
                /\ room'.phase = "awaiting_bottom_eight"
           ELSE /\ ev'.msg \in {"Not in drawing phase.",
                                "Need 4 players seated to auto-deal."}
                /\ room' = room]_vars

\* The socket occupies the seat of the starting player.
IsStarter(r, p) == r.startingPlayer # Null /\ seatOf(r, p) = r.startingPlayer

\* C14: a start_bottom_eight goes through only in the phase awaiting the
\* pickup, for the socket in the starting player's seat; it then appends the
\* 8 cards of the bottom pile to that socket's hand, empties the bottom pile,
\* moves to the discarding phase and leaves the other hands alone.  From any
\* other socket or in any other phase it is refused and changes nothing.
BottomPickup ==
  [][(ev'.op = "start_bottom_eight")
      => /\ ev'.msg = OK
           => LET p == ev'.sid
              IN  /\ room.phase = "awaiting_bottom_eight"
                  /\ IsStarter(room, p)
                  /\ Len(room.bottomEight) = BottomCount
                  /\ room'.hands = [room.hands EXCEPT ![p] = room.hands[p] \o room.bottomEight]
                  /\ room'.bottomEight = <<>>
                  /\ room'.phase = "discarding_bottom_eight"
         /\ ev'.msg \in {"Not time for bottom 8 yet.",
                         "Starting player not set (no 2 drawn yet).",
                         "Only starting player can pick up bottom 8."}
           => room' = room
         /\ room.phase # "awaiting_bottom_eight" => ev'.msg = "Not time for bottom 8 yet."]_vars

\* The starting player has just picked up the bottom pile.
BottomPickedUp ==
  /\ ev.op = "start_bottom_eight" /\ ev.msg = OK
  /\ room.phase = "discarding_bottom_eight"
  /\ room.bottomEight = <<>>
  /\ Len(room.hands[ev.sid]) > BottomCount

\* The cards of a hand that are not in a set, in the order of the hand.
Without(hand, set) == SelectSeq(hand, LAMBDA c : c \notin set)

Elems(q) == {q[i] : i \in 1..Len(q)}

Distinct(q) == \A i, j \in 1..Len(q) : i # j => q[i] # q[j]

\* C15: in the discarding phase a selection by the starting player of 8
\* distinct cards of its hand goes through, and one that is not of 8
\* identifiers is refused with "Must discard exactly 8 cards."; a
\* discard_bottom_eight that goes through is by the socket in the starting
\* player's seat, takes 8 cards out of its hand, makes them the bottom pile,
\* starts the playing phase and gives the turn to the starting player.
DiscardExchange ==
  /\ [](\A p \in online : \A ids \in DiscardInputs(HandOf(room, p)) :
          (room.phase = "discarding_bottom_eight" /\ IsStarter(room, p))
            => LET res == discard_bottom_eight(room, p, ids)
               IN  /\ Len(ids) # BottomCount
                         => res = Res(room, "Must discard exactly 8 cards.")
                   /\ (Len(ids) = BottomCount /\ Distinct(ids)
                          /\ Elems(ids) \subseteq Elems(HandOf(room, p)))
                         => /\ res.msg = OK
                            /\ res.room.bottomEight = ids)
  /\ [][Went("discard_bottom_eight")
         => LET p == ev'.sid
                b == room'.bottomEight
            IN  /\ room.phase = "discarding_bottom_eight"
                /\ IsStarter(room, p)
                /\ Len(b) = BottomCount /\ Distinct(b)
                /\ Elems(b) \subseteq Elems(room.hands[p])
                /\ room'.hands = [room.hands EXCEPT ![p] = Without(room.hands[p], Elems(b))]
                /\ room'.phase = "playing"
                /\ room'.currentTurn = room.startingPlayer]_vars

\* The starting player has just put 8 cards back as the bottom pile and leads.
BottomDiscarded ==
  /\ ev.op = "discard_bottom_eight" /\ ev.msg = OK
  /\ room.phase = "playing"
  /\ Len(room.bottomEight) = BottomCount
  /\ room.currentTurn = room.startingPlayer
  /\ seatOf(room, ev.sid) = room.startingPlayer

\* C16: once the room has started the bottom pile holds 8 cards in the
\* drawing phase, while the pickup is awaited and in the playing phase, and
\* none in the discarding phase.
BottomPileSize ==
  room.started =>
    /\ room.phase \in {"drawing", "awaiting_bottom_eight", "playing"}
          => Len(room.bottomEight) = BottomCount
    /\ room.phase = "discarding_bottom_eight" => Len(room.bottomEight) = 0
    /\ room.phase \in {"drawing", "awaiting_bottom_eight", "playing",
                       "discarding_bottom_eight"}

\* A reshuffle from the discarding phase has just set a new bottom pile aside.
BottomReservedAgain ==
  /\ ev.op = "reshuffle_round" /\ ev.msg = OK
  /\ room.phase = "drawing"
  /\ Len(room.bottomEight) = BottomCount

\* C17: a reshuffle_round that goes through leaves the seats and the names
\* as they were; the draw pile and the bottom pile (8 cards) are a whole
\* fresh deck, the discards, every hand and every table entry are empty, no
\* trump, starting player or last action is set, and N is to draw.
ReshuffleResets ==
  [][Went("reshuffle_round")
      => /\ room'.seats = room.seats
         /\ room'.playerNames = room.playerNames
         /\ Len(room'.deck) = DeckSize - BottomCount
         /\ Len(room'.bottomEight) = BottomCount
         /\ Elems(room'.deck) \cup Elems(room'.bottomEight) = 0..(DeckSize - 1)
         /\ room'.discards = <<>>
         /\ \A p \in DOMAIN room'.hands : room'.hands[p] = <<>>
         /\ \A p \in DOMAIN room'.table : room'.table[p] = <<>>
         /\ room'.trumpSuit = Null
         /\ room'.startingPlayer = Null
         /\ room'.lastAction = NoAction
         /\ room'.phase = "drawing"
         /\ room'.currentTurn = "N"]_vars

\* A reshuffle has just gone through in a room that keeps a name and the
\* entry of a socket that joined and holds no seat.
ReshuffledWithNames ==
  /\ ev.op = "reshuffle_round" /\ ev.msg = OK
  /\ room.playerNames # NoEntries
  /\ \E p \in DOMAIN room.hands : seatOf(room, p) = Null
  /\ room.hands[ev.sid] = <<>>

PlayInTurn ==
  /\ [](\A p \in online : \A ids \in PlayInputs(HandOf(room, p)) :
          (room.phase = "playing" /\ seatOf(room, p) # Null
             /\ seatOf(room, p) = room.currentTurn)
            => LET res == play_cards(room, p, ids)
               IN  /\ res.msg = OK
                   /\ Elems(res.room.table[p]) = Elems(ids) \cap Elems(HandOf(room, p))
                   /\ res.room.currentTurn = Clockwise[room.currentTurn])
  /\ [][Went("play_cards")
         => LET p == ev'.sid
                hand == HandOf(room, p)
                played == room'.table[p]
            IN  /\ room.phase = "playing" /\ room'.phase = "playing"
                /\ room.currentTurn \in Seats
                /\ room.seats[room.currentTurn] = p
                /\ Distinct(played) /\ Elems(played) \subseteq Elems(hand)
                /\ HandOf(room', p) = Without(hand, Elems(played))
                /\ DOMAIN room'.hands = DOMAIN room.hands
                /\ \A q \in DOMAIN room.hands \ {p} : room'.hands[q] = room.hands[q]
                /\ DOMAIN room'.table = DOMAIN room.table \cup {p}
                /\ \A q \in DOMAIN room.table \ {p} : room'.table[q] = room.table[q]
                /\ room'.currentTurn = Clockwise[room.currentTurn]]_vars

\* A play_cards in which no identifier named a card has just passed the turn.
PlayedNothing ==
  /\ ev.op = "play_cards" /\ ev.msg = OK
  /\ room.table[ev.sid] = <<>>
  /\ room.currentTurn = Clockwise[seatOf(room, ev.sid)]

\* The cards a view names: the viewer's hand, the table entries and the card
\* of the last action.  The counts name no card.
CardsShown(view) ==
  Elems(view.yourHand)
    \cup UNION {Elems(view.table[q]) : q \in DOMAIN view.table}
    \cup (IF view.lastAction.type = "draw" THEN {view.lastAction.cardId} ELSE {})

\* C20: the view sent to a socket names no card that is in the hand of
\* another socket.
HandSecrecy ==
  \A p \in Sockets : \A q \in DOMAIN room.hands \ {p} :
    CardsShown(safeRoomStateFor(p, room)) \cap Elems(room.hands[q]) = {}

\* C21: a sit, draw_card, auto_deal, undo_draw, start_bottom_eight,
\* reshuffle_round or play_cards that is refused leaves the room as it was.
RefusalChangesNothing ==
  [][(/\ ev'.op \in {"sit", "draw_card", "auto_deal", "undo_draw",
                      "start_bottom_eight", "reshuffle_round", "play_cards"}
      /\ ev'.msg \notin {OK, Fault})
      => room' = room]_vars

\* An undo_draw by a socket other than the last drawer was just refused, with
\* the draw still on record.
UndoRefusedForOther ==
  /\ ev.op = "undo_draw" /\ ev.msg = "You can only undo your own draw."
  /\ room.lastAction.type = "draw"

\* C22: an undo_draw goes through only in the drawing phase, for the socket
\* in the seat of the last recorded draw; it takes back the card of that
\* draw and leaves no last action, and with no last action every undo_draw
\* is refused with "Nothing to undo.".
UndoSingleLevel ==
  /\ [](room.lastAction.type # "draw"
          => \A p \in Sockets : undo_draw(room, p) = Res(room, "Nothing to undo."))
  /\ [][Went("undo_draw")
         => /\ room.phase = "drawing"
            /\ room.lastAction.type = "draw"
            /\ room.seats[room.lastAction.seat] = ev'.sid
            /\ room'.deck = Append(room.deck, room.lastAction.cardId)
            /\ room'.lastAction = NoAction]_vars

\* A second undo_draw was refused: cards are drawn and no draw is on record.
SecondUndoRefused ==
  /\ ev.op = "undo_draw" /\ ev.msg = "Nothing to undo."
  /\ room.phase = "drawing"
  /\ Len(room.deck) < DeckSize - BottomCount

\* The deck holds every card id once: two copies of each suit and rank and,
\* per copy, a rank-15 and a rank-16 joker of no suit.
IsFullDeck(deck) ==
  /\ Len(deck) = DeckSize
  /\ Distinct(deck)
  /\ Elems(deck) = 0..(DeckSize - 1)
  /\ \A suit \in Elems(Suits) : \A rank \in Elems(Ranks) :
       Cardinality({i \in 1..Len(deck) :
                      SuitOfId(deck[i]) = suit /\ RankOfId(deck[i]) = rank}) = NumDecks
  /\ \A rank \in {15, 16} :
       Cardinality({i \in 1..Len(deck) :
                      SuitOfId(deck[i]) = Null /\ RankOfId(deck[i]) = rank}) = NumDecks

\* C23: buildTwoDecks gives a full deck: the deck of a new room, and the
\* draw pile and bottom pile a reshuffle leaves, are one.
DeckIsComplete ==
  /\ ev.op = "create_room" => IsFullDeck(room.deck)
  /\ (ev.op = "reshuffle_round" /\ ev.msg = OK)
       => IsFullDeck(room.bottomEight \o room.deck)

\* A reshuffle has just dealt a deck other than the built list rotated.
FreshDeckBuilt ==
  /\ ev.op = "reshuffle_round" /\ ev.msg = OK
  /\ IsFullDeck(room.bottomEight \o room.deck)
  /\ room.bottomEight[1] # buildTwoDecks(1)[1]

\* C24: after a disconnect the socket holds no seat and has no hand, table
\* or name entry, and whatever else the room holds is as it was; a room in
\* which it had neither a seat nor a hand entry is not changed.
DisconnectFrame ==
  [][(ev'.op = "disconnect")
      => LET p == ev'.sid
         IN  /\ \A s \in Seats :
                  room'.seats[s] = IF room.seats[s] = p THEN NoSocket ELSE room.seats[s]
             /\ room'.hands = Delete(room.hands, p)
             /\ room'.table = Delete(room.table, p)
             /\ room'.playerNames = Delete(room.playerNames, p)
             /\ room'.deck = room.deck
             /\ room'.bottomEight = room.bottomEight
             /\ room'.discards = room.discards
             /\ room'.phase = room.phase
             /\ room'.currentTurn = room.currentTurn
             /\ room'.trumpSuit = room.trumpSuit
             /\ room'.startingPlayer = room.startingPlayer
             /\ room'.lastAction = room.lastAction
             /\ room'.started = room.started
             /\ (seatOf(room, p) = Null /\ ~Has(room.hands, p)) => room' = room]_vars

\* C25: a clear_trick goes through in every phase; it appends the cards of
\* every table entry to the discards and leaves every entry empty, with the
\* rest of the room as it was.
ClearTrickFrame ==
  /\ [](\A p \in Sockets : clear_trick(room, p).msg = OK)
  /\ [][(ev'.op = "clear_trick")
         => LET n == SumLen(room.table, DOMAIN room.table)
                added == SubSeq(room'.discards, Len(room.discards) + 1, Len(room'.discards))
            IN  /\ ev'.msg = OK
                /\ Len(room'.discards) = Len(room.discards) + n
                /\ SubSeq(room'.discards, 1, Len(room.discards)) = room.discards
                /\ Elems(added) = UNION {Elems(room.table[q]) : q \in DOMAIN room.table}
                /\ room'.table = [q \in DOMAIN room.table |-> <<>>]
                /\ room' = [room EXCEPT !.discards = room'.discards,
                                          !.table = room'.table]]_vars

\* A clear_trick has just moved played cards to the discards.
TrickCleared ==
  /\ ev.op = "clear_trick" /\ ev.msg = OK
  /\ room.phase = "playing"
  /\ room.discards # <<>>
  /\ \A q \in DOMAIN room.table : room.table[q] = <<>>

\* C26: the phase changes only from waiting to drawing on the sit that fills
\* the fourth seat, from drawing to awaiting the pickup when the draw pile
\* is dealt out, from there to discarding on the pickup, and from discarding
\* to playing on the discard or back to drawing on a reshuffle; the playing
\* phase is never left.
PhaseOrder ==
  [][(room'.phase # room.phase)
      => \/ /\ room.phase = "waiting" /\ room'.phase = "drawing"
            /\ ev'.op = "sit" /\ Filled(room) = 3 /\ Filled(room') = 4
         \/ /\ room.phase = "drawing" /\ room'.phase = "awaiting_bottom_eight"
            /\ ev'.op \in {"draw_card", "auto_deal"} /\ room'.deck = <<>>
         \/ /\ room.phase = "awaiting_bottom_eight"
            /\ room'.phase = "discarding_bottom_eight"
            /\ ev'.op = "start_bottom_eight"
         \/ /\ room.phase = "discarding_bottom_eight" /\ room'.phase = "playing"
            /\ ev'.op = "discard_bottom_eight"
         \/ /\ room.phase = "discarding_bottom_eight" /\ room'.phase = "drawing"
            /\ ev'.op = "reshuffle_round"]_vars

\* A sit has filled the seats again in the playing phase, which goes on.
RefilledWhilePlaying ==
  /\ ev.op = "sit" /\ ev.msg = OK
  /\ room.phase = "playing"
  /\ Filled(room) = 4
  /\ online # Sockets

\* C27: the turn is a seat in the drawing and playing phases and unset in
\* the others; the playing phase is entered with the starting player on turn.
TurnPointerValid ==
  /\ [](IF room.phase \in {"drawing", "playing"}
          THEN room.currentTurn \in Seats
          ELSE room.currentTurn = Null)
  /\ [][(room.phase # "playing" /\ room'.phase = "playing")
         => /\ room'.startingPlayer \in Seats
            /\ room'.currentTurn = room'.startingPlayer]_vars

\* An auto_deal has just dealt the pile out and no seat is on turn.
NoTurnAfterDeal ==
  /\ ev.op = "auto_deal" /\ ev.msg = OK
  /\ room.phase = "awaiting_bottom_eight"
  /\ room.currentTurn = Null

\* C28: once the room has started every seated socket has a hand entry and a
\* table entry, and no handler ends in a TypeError.
NoFault ==
  /\ ev.msg # Fault
  /\ room.started
       => \A s \in Seats :
            room.seats[s] # NoSocket
              => Has(room.hands, room.seats[s]) /\ Has(room.table, room.seats[s])

\* C29: while the pickup of the bottom pile is awaited, a trump suit and a
\* starting player are set.
StarterSetWhenAwaiting ==
  room.phase = "awaiting_bottom_eight"
    => room.startingPlayer \in Seats /\ room.trumpSuit # Null

\* C30: in the drawing phase the card of the last recorded draw is in the
\* hand of the socket that occupies the seat of that draw, and an undo_draw
\* by that socket goes through.
LastActionInHand ==
  (room.phase = "drawing" /\ room.lastAction.type = "draw"
     /\ room.seats[room.lastAction.seat] # NoSocket)
    => LET p == room.seats[room.lastAction.seat]
       IN  /\ Holds(room, p, room.lastAction.cardId)
           /\ undo_draw(room, p).msg = OK

====
